---------------------------- MODULE Spec2Model ----------------------------
(***************************************************************************)
(* pelicanconf.py: the settings module of a Pelican site.  The file is a   *)
(* straight line of statements, one __future__ import and twenty          *)
(* assignments of literals.  Loading it executes the statements in order   *)
(* against a fresh module namespace; the site generator then reads the     *)
(* names the file assigned.  A site build loads the file once, and the     *)
(* file is loaded again by every later build.                              *)
(*                                                                         *)
(* Text (names and string values) is a sequence of one-character strings,  *)
(* so that prefixes, substrings and emptiness are computed, not assumed.   *)
(***************************************************************************)
EXTENDS Naturals, Sequences, FiniteSets

\* The number of builds (loads of the file) the model follows.
MaxLoads == 5

---------------------------------------------------------------------------
(* Python values.  Every value carries its type name; the other fields     *)
(* hold the payload of that type and are at their zero for the rest.       *)

PyStr(s) == [type |-> "str", str |-> s, int |-> 0, items |-> <<>>]

PyNone == [type |-> "NoneType", str |-> <<>>, int |-> 0, items |-> <<>>]

\* bool is its own type (type(True) is bool), with the values 0 and 1.
PyBool(b) == [type |-> "bool", str |-> <<>>, int |-> IF b THEN 1 ELSE 0, items |-> <<>>]

PyInt(n) == [type |-> "int", str |-> <<>>, int |-> n, items |-> <<>>]

PyTuple(xs) == [type |-> "tuple", str |-> <<>>, int |-> 0, items |-> xs]

PyList(xs) == [type |-> "list", str |-> <<>>, int |-> 0, items |-> xs]

\* The object a `from __future__ import` binds (a __future__._Feature).
PyFeature == [type |-> "_Feature", str |-> <<>>, int |-> 0, items |-> <<>>]

---------------------------------------------------------------------------
(* Statements of the file, one definition per statement, in file order.    *)

\* NAME = <literal>
Assign(n, v) == [op |-> "assign", name |-> n, value |-> v]

\* from __future__ import NAME
ImportFrom(n) == [op |-> "import", name |-> n, value |-> PyFeature]

\* line 3: from __future__ import unicode_literals
unicode_literals == ImportFrom(<<"u", "n", "i", "c", "o", "d", "e", "_", "l", "i", "t", "e", "r",
                                 "a", "l", "s">>)

\* line 5: AUTHOR = u'Francesco Biscani'
AUTHOR ==
    Assign(<<"A", "U", "T", "H", "O", "R">>,
           PyStr(<<"F", "r", "a", "n", "c", "e", "s", "c", "o", " ", "B", "i", "s", "c",
                   "a", "n", "i">>))

\* line 6: SITENAME = u'Zig Zag Wanderer'
SITENAME ==
    Assign(<<"S", "I", "T", "E", "N", "A", "M", "E">>,
           PyStr(<<"Z", "i", "g", " ", "Z", "a", "g", " ", "W", "a", "n", "d", "e", "r",
                   "e", "r">>))

\* line 7: SITEURL = ''
SITEURL ==
    Assign(<<"S", "I", "T", "E", "U", "R", "L">>,
           PyStr(<<>>))

\* line 9: PATH = 'content'
PATH ==
    Assign(<<"P", "A", "T", "H">>,
           PyStr(<<"c", "o", "n", "t", "e", "n", "t">>))

\* line 11: TIMEZONE = 'Europe/Berlin'
TIMEZONE ==
    Assign(<<"T", "I", "M", "E", "Z", "O", "N", "E">>,
           PyStr(<<"E", "u", "r", "o", "p", "e", "/", "B", "e", "r", "l", "i", "n">>))

\* line 13: DEFAULT_LANG = u'en'
DEFAULT_LANG ==
    Assign(<<"D", "E", "F", "A", "U", "L", "T", "_", "L", "A", "N", "G">>,
           PyStr(<<"e", "n">>))

\* FEED_ALL_ATOM as a publishing configuration sets it: a feed path.
FEED_ALL_ATOM_Enabled ==
    Assign(<<"F", "E", "E", "D", "_", "A", "L", "L", "_", "A", "T", "O", "M">>,
           PyStr(<<"f", "e", "e", "d", "s", "/", "a", "l", "l", ".", "a", "t", "o", "m",
                   ".", "x", "m", "l">>))

\* line 16: FEED_ALL_ATOM = None
FEED_ALL_ATOM ==
    Assign(<<"F", "E", "E", "D", "_", "A", "L", "L", "_", "A", "T", "O", "M">>,
           PyNone)

\* line 17: CATEGORY_FEED_ATOM = None
CATEGORY_FEED_ATOM ==
    Assign(<<"C", "A", "T", "E", "G", "O", "R", "Y", "_", "F", "E", "E", "D", "_",
             "A", "T", "O", "M">>,
           PyNone)

\* line 18: TRANSLATION_FEED_ATOM = None
TRANSLATION_FEED_ATOM ==
    Assign(<<"T", "R", "A", "N", "S", "L", "A", "T", "I", "O", "N", "_", "F", "E",
             "E", "D", "_", "A", "T", "O", "M">>,
           PyNone)

\* line 19: AUTHOR_FEED_ATOM = None
AUTHOR_FEED_ATOM ==
    Assign(<<"A", "U", "T", "H", "O", "R", "_", "F", "E", "E", "D", "_", "A", "T",
             "O", "M">>,
           PyNone)

\* line 20: AUTHOR_FEED_RSS = None
AUTHOR_FEED_RSS ==
    Assign(<<"A", "U", "T", "H", "O", "R", "_", "F", "E", "E", "D", "_", "R", "S",
             "S">>,
           PyNone)

\* line 22: THEME = './pure-theme'
THEME ==
    Assign(<<"T", "H", "E", "M", "E">>,
           PyStr(<<".", "/", "p", "u", "r", "e", "-", "t", "h", "e", "m", "e">>))

\* line 24: TAGLINE = 'Stuff of various degrees of importance'
TAGLINE ==
    Assign(<<"T", "A", "G", "L", "I", "N", "E">>,
           PyStr(<<"S", "t", "u", "f", "f", " ", "o", "f", " ", "v", "a", "r", "i", "o",
                   "u", "s", " ", "d", "e", "g", "r", "e", "e", "s", " ", "o", "f", " ",
                   "i", "m", "p", "o", "r", "t", "a", "n", "c", "e">>))

\* SOCIAL without the trailing comma of line 29: (('github', '...')) is the
\* inner pair itself, a tuple of two strings.
SOCIAL_NoTrailingComma ==
    Assign(<<"S", "O", "C", "I", "A", "L">>,
           PyTuple(<<PyStr(<<"g", "i", "t", "h", "u", "b">>),
                     PyStr(<<"h", "t", "t", "p", "s", ":", "/", "/", "g", "i", "t", "h", "u",
                             "b", ".", "c", "o", "m", "/", "b", "l", "u", "e", "s", "c", "a",
                             "r", "n", "i", "/">>)>>))

\* SOCIAL with the placeholder link of the template (line 38), '#'.
SOCIAL_Placeholder ==
    Assign(<<"S", "O", "C", "I", "A", "L">>,
           PyTuple(<<PyTuple(<<PyStr(<<"g", "i", "t", "h", "u", "b">>),
                               PyStr(<<"#">>)>>)>>))

\* lines 27-29: SOCIAL = (('github', 'https://github.com/bluescarni/'),)
SOCIAL ==
    Assign(<<"S", "O", "C", "I", "A", "L">>,
           PyTuple(<<PyTuple(<<PyStr(<<"g", "i", "t", "h", "u", "b">>),
                               PyStr(<<"h", "t", "t", "p", "s", ":", "/", "/", "g", "i", "t",
                                       "h", "u", "b", ".", "c", "o", "m", "/", "b", "l", "u",
                                       "e", "s", "c", "a", "r", "n", "i", "/">>)>>)>>))

\* DEFAULT_PAGINATION switched off the way Pelican's default does, with False.
DEFAULT_PAGINATION_False ==
    Assign(<<"D", "E", "F", "A", "U", "L", "T", "_", "P", "A", "G", "I", "N", "A",
             "T", "I", "O", "N">>,
           PyBool(FALSE))

\* line 41: DEFAULT_PAGINATION = 10
DEFAULT_PAGINATION ==
    Assign(<<"D", "E", "F", "A", "U", "L", "T", "_", "P", "A", "G", "I", "N", "A",
             "T", "I", "O", "N">>,
           PyInt(10))

\* line 43: DEFAULT_DATE = 'fs'
DEFAULT_DATE ==
    Assign(<<"D", "E", "F", "A", "U", "L", "T", "_", "D", "A", "T", "E">>,
           PyStr(<<"f", "s">>))

\* line 45: DISPLAY_PAGES_ON_MENU = True
DISPLAY_PAGES_ON_MENU ==
    Assign(<<"D", "I", "S", "P", "L", "A", "Y", "_", "P", "A", "G", "E", "S", "_",
             "O", "N", "_", "M", "E", "N", "U">>,
           PyBool(TRUE))

\* COVER_IMG_URL with the scheme left off.
COVER_IMG_URL_NoScheme ==
    Assign(<<"C", "O", "V", "E", "R", "_", "I", "M", "G", "_", "U", "R", "L">>,
           PyStr(<<"r", "a", "w", ".", "g", "i", "t", "h", "u", "b", "u", "s", "e", "r",
                   "c", "o", "n", "t", "e", "n", "t", ".", "c", "o", "m", "/", "b", "l",
                   "u", "e", "s", "c", "a", "r", "n", "i", "/", "s", "i", "t", "e", "_",
                   "s", "o", "u", "r", "c", "e", "/", "m", "a", "s", "t", "e", "r", "/",
                   "s", "i", "d", "e", "_", "p", "i", "c", ".", "j", "p", "g">>))

\* line 50: COVER_IMG_URL = 'https://raw.githubusercontent.com/.../side_pic.jpg'
COVER_IMG_URL ==
    Assign(<<"C", "O", "V", "E", "R", "_", "I", "M", "G", "_", "U", "R", "L">>,
           PyStr(<<"h", "t", "t", "p", "s", ":", "/", "/", "r", "a", "w", ".", "g", "i",
                   "t", "h", "u", "b", "u", "s", "e", "r", "c", "o", "n", "t", "e", "n",
                   "t", ".", "c", "o", "m", "/", "b", "l", "u", "e", "s", "c", "a", "r",
                   "n", "i", "/", "s", "i", "t", "e", "_", "s", "o", "u", "r", "c", "e",
                   "/", "m", "a", "s", "t", "e", "r", "/", "s", "i", "d", "e", "_", "p",
                   "i", "c", ".", "j", "p", "g">>))

\* MENUITEMS with the first path written site-absolute, '/pages/about-me.html'.
MENUITEMS_AbsolutePath ==
    Assign(<<"M", "E", "N", "U", "I", "T", "E", "M", "S">>,
           PyList(<<PyTuple(<<PyStr(<<"A", "b", "o", "u", "t">>),
                              PyStr(<<"/", "p", "a", "g", "e", "s", "/", "a", "b", "o", "u", "t",
                                      "-", "m", "e", ".", "h", "t", "m", "l">>)>>),
                    PyTuple(<<PyStr(<<"R", "e", "s", "e", "a", "r", "c", "h">>),
                              PyStr(<<"p", "a", "g", "e", "s", "/", "r", "e", "s", "e", "a", "r",
                                      "c", "h", ".", "h", "t", "m", "l">>)>>),
                    PyTuple(<<PyStr(<<"S", "o", "f", "t", "w", "a", "r", "e">>),
                              PyStr(<<"p", "a", "g", "e", "s", "/", "s", "o", "f", "t", "w", "a",
                                      "r", "e", ".", "h", "t", "m", "l">>)>>)>>))

\* MENUITEMS with the last entry copied from the second and only its label changed.
MENUITEMS_DuplicatePath ==
    Assign(<<"M", "E", "N", "U", "I", "T", "E", "M", "S">>,
           PyList(<<PyTuple(<<PyStr(<<"A", "b", "o", "u", "t">>),
                              PyStr(<<"p", "a", "g", "e", "s", "/", "a", "b", "o", "u", "t", "-",
                                      "m", "e", ".", "h", "t", "m", "l">>)>>),
                    PyTuple(<<PyStr(<<"R", "e", "s", "e", "a", "r", "c", "h">>),
                              PyStr(<<"p", "a", "g", "e", "s", "/", "r", "e", "s", "e", "a", "r",
                                      "c", "h", ".", "h", "t", "m", "l">>)>>),
                    PyTuple(<<PyStr(<<"S", "o", "f", "t", "w", "a", "r", "e">>),
                              PyStr(<<"p", "a", "g", "e", "s", "/", "r", "e", "s", "e", "a", "r",
                                      "c", "h", ".", "h", "t", "m", "l">>)>>)>>))

\* lines 52-54: MENUITEMS = [('About','pages/about-me.html'),
\*                           ('Research','pages/research.html'),
\*                           ('Software','pages/software.html')]
MENUITEMS ==
    Assign(<<"M", "E", "N", "U", "I", "T", "E", "M", "S">>,
           PyList(<<PyTuple(<<PyStr(<<"A", "b", "o", "u", "t">>),
                              PyStr(<<"p", "a", "g", "e", "s", "/", "a", "b", "o", "u", "t", "-",
                                      "m", "e", ".", "h", "t", "m", "l">>)>>),
                    PyTuple(<<PyStr(<<"R", "e", "s", "e", "a", "r", "c", "h">>),
                              PyStr(<<"p", "a", "g", "e", "s", "/", "r", "e", "s", "e", "a", "r",
                                      "c", "h", ".", "h", "t", "m", "l">>)>>),
                    PyTuple(<<PyStr(<<"S", "o", "f", "t", "w", "a", "r", "e">>),
                              PyStr(<<"p", "a", "g", "e", "s", "/", "s", "o", "f", "t", "w", "a",
                                      "r", "e", ".", "h", "t", "m", "l">>)>>)>>))

\* line 56: PLUGINS = ["render_math"]
PLUGINS ==
    Assign(<<"P", "L", "U", "G", "I", "N", "S">>,
           PyList(<<PyStr(<<"r", "e", "n", "d", "e", "r", "_", "m", "a", "t", "h">>)>>))

\* The file with line 48 uncommented: RELATIVE_URLS = True.
Program_RelativeUrls ==
    <<unicode_literals,
      AUTHOR, SITENAME, SITEURL, PATH, TIMEZONE, DEFAULT_LANG,
      FEED_ALL_ATOM, CATEGORY_FEED_ATOM, TRANSLATION_FEED_ATOM,
      AUTHOR_FEED_ATOM, AUTHOR_FEED_RSS,
      THEME, TAGLINE, SOCIAL,
      DEFAULT_PAGINATION, DEFAULT_DATE, DISPLAY_PAGES_ON_MENU,
      Assign(<<"R", "E", "L", "A", "T", "I", "V", "E", "_", "U", "R", "L", "S">>, PyBool(TRUE)),
      COVER_IMG_URL, MENUITEMS, PLUGINS>>

\* The file with the social widget of lines 38-39 uncommented: a second
\* assignment of SOCIAL after the one of lines 27-29.
Program_SocialWidget ==
    <<unicode_literals,
      AUTHOR, SITENAME, SITEURL, PATH, TIMEZONE, DEFAULT_LANG,
      FEED_ALL_ATOM, CATEGORY_FEED_ATOM, TRANSLATION_FEED_ATOM,
      AUTHOR_FEED_ATOM, AUTHOR_FEED_RSS,
      THEME, TAGLINE, SOCIAL,
      Assign(<<"S", "O", "C", "I", "A", "L">>,
             PyTuple(<<PyTuple(<<PyStr(<<"Y", "o", "u", " ", "c", "a", "n", " ", "a", "d", "d",
                                         " ", "l", "i", "n", "k", "s", " ", "i", "n", " ", "y",
                                         "o", "u", "r", " ", "c", "o", "n", "f", "i", "g", " ",
                                         "f", "i", "l", "e">>),
                                 PyStr(<<"#">>)>>),
                       PyTuple(<<PyStr(<<"A", "n", "o", "t", "h", "e", "r", " ", "s", "o", "c",
                                         "i", "a", "l", " ", "l", "i", "n", "k">>),
                                 PyStr(<<"#">>)>>)>>)),
      DEFAULT_PAGINATION, DEFAULT_DATE, DISPLAY_PAGES_ON_MENU,
      COVER_IMG_URL, MENUITEMS, PLUGINS>>

\* The statements of the file in the order of their lines (comments and
\* blank lines execute nothing).
Program ==
    <<unicode_literals,
      AUTHOR, SITENAME, SITEURL, PATH, TIMEZONE, DEFAULT_LANG,
      FEED_ALL_ATOM, CATEGORY_FEED_ATOM, TRANSLATION_FEED_ATOM,
      AUTHOR_FEED_ATOM, AUTHOR_FEED_RSS,
      THEME, TAGLINE, SOCIAL,
      DEFAULT_PAGINATION, DEFAULT_DATE, DISPLAY_PAGES_ON_MENU,
      COVER_IMG_URL, MENUITEMS, PLUGINS>>

---------------------------------------------------------------------------
(* The load of the file.                                                   *)

VARIABLES
    pc,       \* index in Program of the next statement to execute
    globals,  \* the module namespace: bindings [name, value] in insertion order
    trace,    \* the names bound by assignment statements in this load, in order
    loads,    \* the number of loads completed and read
    last      \* the settings the previous load produced

vars == <<pc, globals, trace, loads, last>>

\* Binding a name in a namespace: a bound name keeps its place and takes
\* the new value, a new name goes to the end.
Bind(g, n, v) ==
    IF \E i \in 1..Len(g) : g[i].name = n
    THEN [i \in 1..Len(g) |-> IF g[i].name = n THEN [name |-> n, value |-> v] ELSE g[i]]
    ELSE Append(g, [name |-> n, value |-> v])

Lookup(g, n) == g[CHOOSE i \in 1..Len(g) : g[i].name = n].value

\* The names the file has assigned so far in this load.
Assigned == {trace[i] : i \in 1..Len(trace)}

\* The settings of the file: the bindings of the names it assigned.
IsAssigned(b) == b.name \in Assigned

Config == SelectSeq(globals, IsAssigned)

Done == pc = Len(Program) + 1

Init ==
    /\ pc = 1
    /\ globals = <<>>
    /\ trace = <<>>
    /\ loads = 0
    /\ last = <<>>

\* from __future__ import NAME: binds NAME in the namespace.
ExecImport ==
    /\ pc <= Len(Program)
    /\ Program[pc].op = "import"
    /\ globals' = Bind(globals, Program[pc].name, Program[pc].value)
    /\ pc' = pc + 1
    /\ UNCHANGED <<trace, loads, last>>

\* NAME = <literal>: binds NAME to the literal's value.
ExecAssign ==
    /\ pc <= Len(Program)
    /\ Program[pc].op = "assign"
    /\ globals' = Bind(globals, Program[pc].name, Program[pc].value)
    /\ trace' = Append(trace, Program[pc].name)
    /\ pc' = pc + 1
    /\ UNCHANGED <<loads, last>>

\* The end of a load: the settings are read, and the next build loads the
\* file again into a fresh namespace.
ReadSettings ==
    /\ Done
    /\ loads < MaxLoads
    /\ last' = Config
    /\ loads' = loads + 1
    /\ pc' = 1
    /\ globals' = <<>>
    /\ trace' = <<>>

Next == ExecImport \/ ExecAssign \/ ReadSettings

Spec == Init /\ [][Next]_vars

---------------------------------------------------------------------------
(* Predicates on values and text used to state the properties.             *)

Has(stmt) == stmt.name \in Assigned

Val(stmt) == Lookup(globals, stmt.name)

Contains(s, sub) ==
    \E i \in 1..(Len(s) + 1) :
        /\ i + Len(sub) - 1 <= Len(s)
        /\ SubSeq(s, i, i + Len(sub) - 1) = sub

IsString(v) == v.type = "str"

IsBoolOrNone(v) == v.type \in {"bool", "NoneType"}

IsInteger(v) == v.type = "int"

IsSequence(v) == v.type \in {"tuple", "list"}

IsPair(v) == IsSequence(v) /\ Len(v.items) = 2

IsStringPair(v) == IsPair(v) /\ IsString(v.items[1]) /\ IsString(v.items[2])

IsPairSeq(v) == IsSequence(v) /\ \A i \in 1..Len(v.items) : IsPair(v.items[i])

IsStringSeq(v) ==
    IsSequence(v) /\ Len(v.items) > 0 /\ \A i \in 1..Len(v.items) : IsString(v.items[i])

\* The four shapes of section 6: string, boolean/None, integer, tuple-list.
ExpectedShape(v) == IsString(v) \/ IsBoolOrNone(v) \/ IsInteger(v) \/ IsPairSeq(v)

Alpha ==
    {"a", "b", "c", "d", "e", "f", "g", "h", "i", "j", "k", "l", "m",
     "n", "o", "p", "q", "r", "s", "t", "u", "v", "w", "x", "y", "z",
     "A", "B", "C", "D", "E", "F", "G", "H", "I", "J", "K", "L", "M",
     "N", "O", "P", "Q", "R", "S", "T", "U", "V", "W", "X", "Y", "Z"}

Digit == {"0", "1", "2", "3", "4", "5", "6", "7", "8", "9"}

\* Characters of a scheme after its first letter (RFC 3986, 3.1).
SchemeChar == Alpha \cup Digit \cup {"+", "-", "."}

\* Characters a URL is written with (RFC 3986, 2: unreserved, reserved, "%").
URLChar ==
    Alpha \cup Digit \cup
    {"-", ".", "_", "~", ":", "/", "?", "#", "[", "]", "@",
     "!", "$", "&", "'", "(", ")", "*", "+", ",", ";", "=", "%"}

\* Characters of the path strings of a site: segments of letters, digits,
\* ".", "-" and "_", separated by "/".
PathChar == Alpha \cup Digit \cup {".", "-", "_", "/"}

\* s[1..i] is "<scheme>:".
SchemeEndsAt(s, i) ==
    /\ 2 <= i /\ i <= Len(s)
    /\ s[i] = ":"
    /\ s[1] \in Alpha
    /\ \A j \in 2..(i - 1) : s[j] \in SchemeChar

HasScheme(s) == \E i \in 1..Len(s) : SchemeEndsAt(s, i)

\* "//" and a non-empty host follow position i.
HostFollows(s, i) ==
    /\ Len(s) >= i + 3
    /\ s[i + 1] = "/" /\ s[i + 2] = "/"
    /\ s[i + 3] \notin {"/", "?", "#", ":", "@"}

\* <scheme>://<host>..., written with URL characters only.
IsAbsoluteURL(s) ==
    /\ \A j \in 1..Len(s) : s[j] \in URLChar
    /\ \E i \in 1..Len(s) : SchemeEndsAt(s, i) /\ HostFollows(s, i)

IsRelativePath(s) == ~HasScheme(s) /\ (Len(s) > 0 => s[1] # "/")

WellFormedPath(s) == Len(s) > 0 /\ \A j \in 1..Len(s) : s[j] \in PathChar

NoDuplicates(s) == \A i, j \in 1..Len(s) : i # j => s[i] # s[j]

\* The first and the second elements of the pairs of a pair sequence.
Firsts(v) == [i \in 1..Len(v.items) |-> v.items[i].items[1].str]

Seconds(v) == [i \in 1..Len(v.items) |-> v.items[i].items[2].str]

AllStringPairs(v) == IsSequence(v) /\ \A i \in 1..Len(v.items) : IsStringPair(v.items[i])

---------------------------------------------------------------------------
(* Feed toggles.                                                           *)

FeedToggles == {n \in Assigned : Contains(n, <<"F", "E", "E", "D", "_">>)}

AllFeedsDisabled == \A i \in 1..Len(Config) : Config[i].name \in FeedToggles => Config[i].value = PyNone

\* C1, as claimed: the file defines exactly four feed toggles (names
\* containing FEED_), and every one of them holds None.
C1_FourFeedToggles ==
    /\ AllFeedsDisabled
    /\ Done => Cardinality(FeedToggles) = 4

\* C1, amended: the file defines exactly five feed toggles (FEED_ALL_ATOM,
\* CATEGORY_FEED_ATOM, TRANSLATION_FEED_ATOM, AUTHOR_FEED_ATOM and
\* AUTHOR_FEED_RSS), and every feed toggle assigned holds None.
C1_FiveFeedTogglesDisabled ==
    /\ AllFeedsDisabled
    /\ Done => FeedToggles = {FEED_ALL_ATOM.name, CATEGORY_FEED_ATOM.name,
                              TRANSLATION_FEED_ATOM.name, AUTHOR_FEED_ATOM.name,
                              AUTHOR_FEED_RSS.name}
    /\ Done => Cardinality(FeedToggles) = 5

\* The load has finished and its feed toggles are bound.
C1_Witness ==
    /\ Done
    /\ Has(FEED_ALL_ATOM) /\ Has(AUTHOR_FEED_RSS)
    /\ Val(AUTHOR_FEED_RSS).type = "NoneType"

---------------------------------------------------------------------------
(* Shapes of the values.                                                   *)

\* C2, as claimed: every key assigned holds a string, a boolean or None, an
\* integer, or a sequence of 2-element pairs.
C2_FourShapes == \A i \in 1..Len(Config) : ExpectedShape(Config[i].value)

\* C2, amended: PLUGINS holds a non-empty sequence of strings, and every
\* other key assigned holds a string, a boolean or None, an integer, or a
\* sequence of 2-element pairs.
C2_ShapesWithPluginList ==
    \A i \in 1..Len(Config) :
        IF Config[i].name = PLUGINS.name
        THEN IsStringSeq(Config[i].value)
        ELSE ExpectedShape(Config[i].value)

\* The load has finished with the plugin list and both pair lists assigned.
C2_Witness ==
    /\ Done
    /\ Has(PLUGINS) /\ Has(SOCIAL) /\ Has(MENUITEMS)
    /\ Len(Config) = 20
    /\ IsStringSeq(Val(PLUGINS)) /\ IsPairSeq(Val(SOCIAL))

---------------------------------------------------------------------------
(* Menu items and social links.                                            *)

\* C3: MENUITEMS is a sequence whose every entry is a pair of two strings
\* (label, path), with a non-empty label and a relative path (no scheme, no
\* leading "/"), and the labels are About, Research, Software in this order.
C3_MenuItems ==
    Has(MENUITEMS) =>
        /\ AllStringPairs(Val(MENUITEMS))
        /\ \A i \in 1..Len(Val(MENUITEMS).items) :
               /\ Len(Firsts(Val(MENUITEMS))[i]) > 0
               /\ IsRelativePath(Seconds(Val(MENUITEMS))[i])
        /\ Firsts(Val(MENUITEMS)) = <<<<"A", "b", "o", "u", "t">>, <<"R", "e", "s", "e", "a", "r",
                                                                     "c", "h">>, <<"S", "o", "f", "t", "w", "a",
                                                                                   "r", "e">>>>

\* MENUITEMS is assigned and holds its three entries.
C3_Witness == Has(MENUITEMS) /\ Len(Val(MENUITEMS).items) = 3

\* C4: SOCIAL is a sequence whose every entry is a pair of two strings
\* (platform name, URL), and every URL is absolute, with a scheme and a host.
C4_Social ==
    Has(SOCIAL) =>
        /\ AllStringPairs(Val(SOCIAL))
        /\ \A i \in 1..Len(Val(SOCIAL).items) : IsAbsoluteURL(Seconds(Val(SOCIAL))[i])

\* SOCIAL is assigned and holds an entry.
C4_Witness == Has(SOCIAL) /\ Len(Val(SOCIAL).items) >= 1

\* The path-valued settings are non-empty path strings.
PathsWellFormed ==
    /\ Has(PATH) => IsString(Val(PATH)) /\ WellFormedPath(Val(PATH).str)
    /\ Has(THEME) => IsString(Val(THEME)) /\ WellFormedPath(Val(THEME).str)
    /\ Has(MENUITEMS) =>
           /\ AllStringPairs(Val(MENUITEMS))
           /\ \A i \in 1..Len(Val(MENUITEMS).items) :
                  WellFormedPath(Seconds(Val(MENUITEMS))[i])

\* The cover image and the social links are URLs.
LinksWellFormed ==
    /\ Has(COVER_IMG_URL) =>
           IsString(Val(COVER_IMG_URL)) /\ IsAbsoluteURL(Val(COVER_IMG_URL).str)
    /\ Has(SOCIAL) =>
           /\ AllStringPairs(Val(SOCIAL))
           /\ \A i \in 1..Len(Val(SOCIAL).items) : IsAbsoluteURL(Seconds(Val(SOCIAL))[i])

\* C5, as claimed: SITEURL, COVER_IMG_URL and every SOCIAL URL are
\* well-formed URLs, and PATH, THEME and every MENUITEMS path are
\* well-formed non-empty path strings.
C5_AllURLsWellFormed ==
    /\ Has(SITEURL) => IsString(Val(SITEURL)) /\ IsAbsoluteURL(Val(SITEURL).str)
    /\ LinksWellFormed
    /\ PathsWellFormed

\* C5, amended: COVER_IMG_URL and every SOCIAL URL are well-formed URLs
\* (scheme and host), SITEURL is the empty string, and PATH, THEME and
\* every MENUITEMS path are well-formed non-empty path strings.
C5_URLsAndPathsWellFormed ==
    /\ Has(SITEURL) => Val(SITEURL) = PyStr(<<>>)
    /\ LinksWellFormed
    /\ PathsWellFormed

\* Every URL-valued and path-valued setting is assigned.
C5_Witness ==
    /\ Has(SITEURL) /\ Has(COVER_IMG_URL) /\ Has(SOCIAL)
    /\ Has(PATH) /\ Has(THEME) /\ Has(MENUITEMS)
    /\ Len(Val(COVER_IMG_URL).str) > 0

---------------------------------------------------------------------------
(* The kinds of key of the data model.                                     *)

SiteMetadata ==
    {AUTHOR.name, SITENAME.name, SITEURL.name, TAGLINE.name, TIMEZONE.name,
     DEFAULT_LANG.name, COVER_IMG_URL.name}

\* Site metadata, feed toggle, theme reference, social links, menu items,
\* pagination count, plugin list.
ListedKind(n) ==
    \/ n \in SiteMetadata
    \/ Contains(n, <<"F", "E", "E", "D", "_">>)
    \/ n \in {THEME.name, SOCIAL.name, MENUITEMS.name, DEFAULT_PAGINATION.name,
              PLUGINS.name}

\* C6, as claimed: every key the file assigns is of a kind the data model
\* lists.
C6_OnlyListedKinds == \A n \in Assigned : ListedKind(n)

\* C6, amended: every key the file assigns is of a kind the data model
\* lists, or is one of PATH, DEFAULT_DATE and DISPLAY_PAGES_ON_MENU.
C6_ListedKindsAndThreeMore ==
    \A n \in Assigned :
        ListedKind(n) \/ n \in {PATH.name, DEFAULT_DATE.name, DISPLAY_PAGES_ON_MENU.name}

\* The load has finished; the three keys outside the listed kinds and keys
\* of the listed kinds are assigned.
C6_Witness ==
    /\ Done
    /\ Has(PATH) /\ Has(DEFAULT_DATE) /\ Has(DISPLAY_PAGES_ON_MENU)
    /\ Has(AUTHOR) /\ Has(THEME) /\ Has(DEFAULT_PAGINATION)

---------------------------------------------------------------------------
(* The load as a whole.                                                    *)

AssignedNames == {Program[i].name : i \in {k \in 1..Len(Program) : Program[k].op = "assign"}}

\* C7: a load assigns each name exactly once (no assignment overwrites an
\* earlier one), and the settings at the end of a load are those of the
\* load before it.
C7_AssignedOnceAndRepeatable ==
    /\ NoDuplicates(trace)
    /\ Len(Config) = Len(trace)
    /\ Done => /\ Assigned = AssignedNames
               /\ Len(trace) = Cardinality(AssignedNames)
    /\ (Done /\ loads > 0) => Config = last

\* A third load has finished, after two loads were read.
C7_Witness == Done /\ loads >= 2 /\ Len(trace) = 20 /\ Len(last) = 20

\* C8: DEFAULT_PAGINATION is an integer (not a boolean, not a string) and
\* strictly positive.
C8_PaginationPositive ==
    Has(DEFAULT_PAGINATION) =>
        Val(DEFAULT_PAGINATION).type = "int" /\ Val(DEFAULT_PAGINATION).int > 0

\* DEFAULT_PAGINATION is assigned, to 10.
C8_Witness == Has(DEFAULT_PAGINATION) /\ Val(DEFAULT_PAGINATION).int = 10

\* C9: no two MENUITEMS entries share a label, no two share a path, and no
\* two SOCIAL entries share a platform name.
C9_EntriesUnique ==
    /\ Has(MENUITEMS) =>
           /\ AllStringPairs(Val(MENUITEMS))
           /\ NoDuplicates(Firsts(Val(MENUITEMS)))
           /\ NoDuplicates(Seconds(Val(MENUITEMS)))
    /\ Has(SOCIAL) =>
           /\ AllStringPairs(Val(SOCIAL))
           /\ NoDuplicates(Firsts(Val(SOCIAL)))

\* Both lists are assigned, and MENUITEMS has several entries to tell apart.
C9_Witness == Has(MENUITEMS) /\ Has(SOCIAL) /\ Len(Val(MENUITEMS).items) > 1

=============================================================================
